---- MODULE Spec2Model ----
(***************************************************************************)
(* A model of the Django REST Framework examples of the repository:        *)
(*   src/django/examples/viewset-example.py      ArticleViewSet            *)
(*   src/django/templates/serializer-example.py  ArticleSerializer,        *)
(*                                               ArticleCreateSerializer   *)
(*   src/django/examples/filters-example.py      ArticleFilter (choices)   *)
(*                                                                         *)
(* The database is the Article table (articles, a row's id is its index)   *)
(* and the Tag table (tagRows).  Four specifications share the variables:  *)
(*   Spec         the view set, one action per HTTP handler, each handler  *)
(*                running from request to response without interleaving;   *)
(*   SpecRace     the publish handler split at its database read and its   *)
(*                database write, several requests in flight;              *)
(*   SpecValidate ArticleSerializer's validation applied to one input and  *)
(*                followed by the save;                                    *)
(*   SpecNested   ArticleCreateSerializer.create and .update.              *)
(***************************************************************************)
EXTENDS Integers, Sequences, FiniteSets, TLC

VARIABLES
    articles,   \* the Article table: a sequence of rows, id = index
    tagRows,    \* the Tag table: a sequence of tag names, id = index
    last,       \* the request handled last and its response
    reqs,       \* SpecRace: the publish requests in flight, per worker
    vin,        \* SpecValidate: the input handed to the serializer
    vout        \* SpecValidate: the outcome of is_valid()

vars == <<articles, tagRows, last, reqs, vin, vout>>

(***************************************************************************)
(* Bounds of the model.                                                    *)
(***************************************************************************)
MaxArticles == 2      \* rows the Article table may hold
MaxTitleLen == 6      \* longest title a request carries
MaxTagList  == 2      \* longest nested tags list a request carries
MaxInflight == 2      \* publish requests handled at the same time

(***************************************************************************)
(* Program constants.                                                      *)
(***************************************************************************)
MinTitleLen == 5      \* validate_title: len(value) < 5

HTTP_200_OK == 200
HTTP_201_CREATED == 201
HTTP_204_NO_CONTENT == 204
HTTP_400_BAD_REQUEST == 400
HTTP_404_NOT_FOUND == 404
HTTP_500_INTERNAL_SERVER_ERROR == 500

(***************************************************************************)
(* Values.                                                                 *)
(***************************************************************************)
None == "None"

\* request.user: permission_classes = [IsAuthenticated], so every handler
\* runs for an authenticated user; alice is staff, bob is not.
Users == {"alice", "bob"}

\* The users a request body may name as author: mallory never sends a request.
NamedUsers == {"mallory"}

is_staff(user) == user = "alice"

\* ArticleFilter.status choices.
Statuses == {"draft", "published", "archived"}

\* The status of a row created without one.
DefaultStatus == "draft"

Summaries == {"", "s"}

RECURSIVE Title(_)
Title(n) == IF n = 0 THEN "" ELSE "a" \o Title(n - 1)

\* The titles a view-set request carries: the two sides of validate_title's
\* test.
Titles == {Title(MinTitleLen - 1), Title(MinTitleLen)}

\* The titles handed to the serializer's validation alone.
AllTitles == {Title(n) : n \in 0..MaxTitleLen}

\* The tag names a nested tags list may carry.
TagNames == {"python", "django"}

Ids == 1..MaxArticles

\* A deleted row.
Gone == [title |-> "", summary |-> "", status |-> "", author |-> None,
         tags |-> {}, live |-> FALSE]

LiveIds == {i \in 1..Len(articles) : articles[i].live}

TagIds == 1..Len(tagRows)

(***************************************************************************)
(* Request data: a dictionary holding any subset of the fields.  A raw     *)
(* field is <<>> (absent) or <<v>>.                                        *)
(***************************************************************************)
Opt(S) == {<<>>} \cup {<<v>> : v \in S}

Strip(raw) == [k \in {f \in DOMAIN raw : Len(raw[f]) = 1} |-> raw[k][1]]

Get(attrs, key) == IF key \in DOMAIN attrs THEN attrs[key] ELSE None

\* Python truthiness of a value read with attrs.get: None and "" are falsy.
Falsy(value) == value = None \/ value = ""

\* What a client may send to the view set.
RequestData ==
    {Strip(raw) : raw \in [title : Opt(Titles), summary : Opt(Summaries),
                           status : Opt(Statuses), author : Opt(NamedUsers),
                           tag_ids : Opt(SUBSET TagIds)]}

(***************************************************************************)
(* ArticleSerializer.                                                      *)
(***************************************************************************)
\* Mutant: author left out of the read-only fields.
ReadOnlyFields_AuthorWritable == {"id", "created_at", "updated_at"}

\* Meta.read_only_fields, and author / tags declared read_only=True.
ReadOnlyFields == {"id", "author", "created_at", "updated_at"}

\* The declared fields a client must send unless the update is partial:
\* title (a model field without default) and tag_ids (declared without
\* required=False).
RequiredFields == {"title", "tag_ids"}

Rejected(field) == [ok |-> FALSE, errors |-> field]

Accepted(value) == [ok |-> TRUE, value |-> value]

\* The writable part of the request data, tag_ids stored under its source.
to_internal_value(data) ==
    LET keep == (DOMAIN data) \ ReadOnlyFields
        key(k) == IF k = "tag_ids" THEN "tags" ELSE k
    IN  [k \in {key(f) : f \in keep} |->
            IF k = "tags" THEN data["tag_ids"] ELSE data[k]]

\* Mutant: the length test is off by one.
validate_title_off_by_one(value) ==
    IF Len(value) <= MinTitleLen THEN Rejected("title") ELSE Accepted(value)

validate_title(value) ==
    IF Len(value) < MinTitleLen THEN Rejected("title") ELSE Accepted(value)

validate(attrs) ==
    IF Get(attrs, "status") = "published" /\ Falsy(Get(attrs, "summary"))
    THEN Rejected("summary")
    ELSE Accepted(attrs)

\* Serializer.run_validation: the validate_<field> methods of the supplied
\* fields, then validate() when none of them raised.
run_validation(attrs) ==
    IF "title" \in DOMAIN attrs /\ ~validate_title(attrs.title).ok
    THEN validate_title(attrs.title)
    ELSE validate(attrs)

\* serializer.is_valid() on request data.
is_valid(data, partial) ==
    IF ~partial /\ \E f \in RequiredFields : f \notin DOMAIN data
    THEN Rejected("required")
    ELSE run_validation(to_internal_value(data))

\* The row Model.objects.create(**validated_data) inserts.
NewRow(validated_data) ==
    [title   |-> Get(validated_data, "title"),
     summary |-> IF "summary" \in DOMAIN validated_data
                 THEN validated_data.summary ELSE "",
     status  |-> IF "status" \in DOMAIN validated_data
                 THEN validated_data.status ELSE DefaultStatus,
     author  |-> Get(validated_data, "author"),
     tags    |-> IF "tags" \in DOMAIN validated_data
                 THEN validated_data.tags ELSE {},
     live    |-> TRUE]

\* setattr(instance, attr, value) for every validated attribute.
SetAttrs(instance, validated_data) ==
    [f \in DOMAIN instance |->
        IF f \in DOMAIN validated_data THEN validated_data[f] ELSE instance[f]]

\* serializer.data of one row.
Serialized(pk, row) ==
    [id |-> pk, title |-> row.title, summary |-> row.summary,
     status |-> row.status, author |-> row.author, tags |-> row.tags]

(***************************************************************************)
(* ArticleViewSet.                                                         *)
(***************************************************************************)
\* Mutant: the status filter for non-staff users is left out.
get_queryset_unfiltered(user) == LiveIds

get_queryset(user) ==
    IF ~is_staff(user)
    THEN {i \in LiveIds : articles[i].status = "published"}
    ELSE LiveIds

\* The rows a handler resolved, each with the status it had when resolved.
Reached(ids) == {<<i, articles[i].status>> : i \in ids}

Response(op, user, pk, code, reached, body) ==
    [op |-> op, user |-> user, pk |-> pk, code |-> code,
     reached |-> reached, body |-> body]

NotFound(op, user, pk) ==
    Response(op, user, pk, HTTP_404_NOT_FOUND, {}, [detail |-> "not found"])

BadRequest(op, user, pk, reached, field) ==
    Response(op, user, pk, HTTP_400_BAD_REQUEST, reached, [errors |-> field])

Idle == Response("none", None, 0, 0, {}, [detail |-> ""])

\* filterset_fields = ["status", "author"]: the query-string filters of list.
QueryParams == [status : Statuses \cup {None}, author : Users \cup {None}]

filter_queryset(ids, query) ==
    {i \in ids : /\ query.status = None \/ articles[i].status = query.status
                 /\ query.author = None \/ articles[i].author = query.author}

\* Every handler returns the table it leaves and its response.
Result(table, response) == [table |-> table, response |-> response]

list(user, query) ==
    LET ids == filter_queryset(get_queryset(user), query)
    IN  Result(articles,
               Response("list", user, 0, HTTP_200_OK, Reached(ids), [ids |-> ids]))

retrieve(user, pk) ==
    IF pk \in get_queryset(user)
    THEN Result(articles,
                Response("retrieve", user, pk, HTTP_200_OK, Reached({pk}),
                         Serialized(pk, articles[pk])))
    ELSE Result(articles, NotFound("retrieve", user, pk))

\* perform_create: serializer.save(author=self.request.user).
perform_create(user, validated_data) ==
    NewRow([k \in (DOMAIN validated_data) \cup {"author"} |->
               IF k = "author" THEN user ELSE validated_data[k]])

create(user, data) ==
    LET v  == is_valid(data, FALSE)
        pk == Len(articles) + 1
    IN  IF ~v.ok
        THEN Result(articles, BadRequest("create", user, 0, {}, v.errors))
        ELSE Result(Append(articles, perform_create(user, v.value)),
                    Response("create", user, pk, HTTP_201_CREATED, {},
                             Serialized(pk, perform_create(user, v.value))))

\* update (partial = FALSE) and partial_update (partial = TRUE).
update(user, pk, data, partial) ==
    LET op == IF partial THEN "partial_update" ELSE "update"
        v  == is_valid(data, partial)
    IN  IF pk \notin get_queryset(user)
        THEN Result(articles, NotFound(op, user, pk))
        ELSE IF ~v.ok
        THEN Result(articles, BadRequest(op, user, pk, Reached({pk}), v.errors))
        ELSE Result([articles EXCEPT ![pk] = SetAttrs(@, v.value)],
                    Response(op, user, pk, HTTP_200_OK, Reached({pk}),
                             Serialized(pk, SetAttrs(articles[pk], v.value))))

destroy(user, pk) ==
    IF pk \notin get_queryset(user)
    THEN Result(articles, NotFound("destroy", user, pk))
    ELSE Result([articles EXCEPT ![pk] = Gone],
                Response("destroy", user, pk, HTTP_204_NO_CONTENT, Reached({pk}),
                         [detail |-> ""]))

\* Mutant: the status is set on the instance and save() is never called.
save_not_called(table, pk, instance) == table

\* article.save(update_fields=["status"]): the UPDATE writes the status
\* column of the row alone.
save_update_fields_status(table, pk, instance) ==
    [table EXCEPT ![pk].status = instance.status]

\* Mutant: the "already published" test is left out.
publish_instance_unchecked(user, pk, article) ==
    LET published == [article EXCEPT !.status = "published"]
    IN  Result(save_update_fields_status(articles, pk, published),
               Response("publish", user, pk, HTTP_200_OK,
                        {<<pk, article.status>>}, Serialized(pk, published)))

\* publish, from the instance get_object returned to the response.
publish_instance(user, pk, article) ==
    LET published == [article EXCEPT !.status = "published"]
    IN  IF article.status = "published"
        THEN Result(articles,
                    Response("publish", user, pk, HTTP_400_BAD_REQUEST,
                             {<<pk, article.status>>},
                             [detail |-> "already published"]))
        ELSE Result(save_update_fields_status(articles, pk, published),
                    Response("publish", user, pk, HTTP_200_OK,
                             {<<pk, article.status>>}, Serialized(pk, published)))

publish(user, pk) ==
    IF pk \notin get_queryset(user)
    THEN Result(articles, NotFound("publish", user, pk))
    ELSE publish_instance(user, pk, articles[pk])

\* paginate_queryset returns None (no pagination class is set on the view),
\* so the response is the serialized queryset.
my_articles(user) ==
    LET ids == {i \in get_queryset(user) : articles[i].author = user}
    IN  Result(articles,
               Response("my_articles", user, 0, HTTP_200_OK, Reached(ids),
                        [ids |-> ids]))

(***************************************************************************)
(* Spec: the view set serving one request at a time.  A handler runs when  *)
(* no response is pending and leaves its response in last; Deliver hands   *)
(* the response to the client.                                             *)
(***************************************************************************)
\* A request is taken up only when the previous response is delivered.
Serving == last = Idle

Handle(result) ==
    /\ Serving
    /\ Len(result.table) <= MaxArticles
    /\ articles' = result.table
    /\ last' = result.response
    /\ UNCHANGED <<tagRows, reqs, vin, vout>>

List(user, query) == Handle(list(user, query))

Retrieve(user, pk) == Handle(retrieve(user, pk))

Create(user, data) == Handle(create(user, data))

Update(user, pk, data) == Handle(update(user, pk, data, FALSE))

PartialUpdate(user, pk, data) == Handle(update(user, pk, data, TRUE))

Destroy(user, pk) == Handle(destroy(user, pk))

Publish(user, pk) == Handle(publish(user, pk))

MyArticles(user) == Handle(my_articles(user))

Deliver ==
    /\ last # Idle
    /\ last' = Idle
    /\ UNCHANGED <<articles, tagRows, reqs, vin, vout>>

NoInput == [user |-> None, data |-> [none |-> ""]]

NotRun == [run |-> FALSE]

NoRequests == [w \in 1..MaxInflight |-> [pc |-> "idle"]]

Init ==
    /\ articles = <<>>
    /\ tagRows = <<>>
    /\ last = Idle
    /\ reqs = NoRequests
    /\ vin = NoInput
    /\ vout = NotRun

Next ==
    \/ Serving /\ \E user \in Users, query \in QueryParams : List(user, query)
    \/ Serving /\ \E user \in Users, pk \in Ids : Retrieve(user, pk)
    \/ Serving /\ \E user \in Users, data \in RequestData : Create(user, data)
    \/ Serving /\ \E user \in Users, pk \in Ids, data \in RequestData :
                     Update(user, pk, data)
    \/ Serving /\ \E user \in Users, pk \in Ids, data \in RequestData :
                     PartialUpdate(user, pk, data)
    \/ Serving /\ \E user \in Users, pk \in Ids : Destroy(user, pk)
    \/ Serving /\ \E user \in Users, pk \in Ids : Publish(user, pk)
    \/ Serving /\ \E user \in Users : MyArticles(user)
    \/ Deliver

Spec == Init /\ [][Next]_vars

(***************************************************************************)
(* SpecValidate: one PATCH request through ArticleSerializer.  The input   *)
(* (requester, stored instance, request data) is drawn by the initial      *)
(* state; the handler validates it and saves it.                           *)
(***************************************************************************)
\* Rows the view set can have stored: a draft and a published article.
SeedRows ==
    {[title |-> Title(MinTitleLen), summary |-> "", status |-> "draft",
      author |-> "bob", tags |-> {}, live |-> TRUE],
     [title |-> Title(MinTitleLen), summary |-> "s", status |-> "published",
      author |-> "bob", tags |-> {}, live |-> TRUE]}

ValidateData ==
    {Strip(raw) : raw \in [title : Opt(AllTitles), summary : Opt(Summaries),
                           status : Opt(Statuses)]}

InitValidate ==
    /\ vin \in [user : Users, instance : SeedRows, data : ValidateData]
    /\ articles = <<vin.instance>>
    /\ tagRows = <<>>
    /\ last = Idle
    /\ reqs = NoRequests
    /\ vout = NotRun

PatchValidated ==
    /\ Serving
    /\ articles' = update(vin.user, 1, vin.data, TRUE).table
    /\ last' = update(vin.user, 1, vin.data, TRUE).response
    /\ vout' = IF 1 \in get_queryset(vin.user)
               THEN is_valid(vin.data, TRUE)
               ELSE NotRun
    /\ UNCHANGED <<tagRows, reqs, vin>>

NextValidate == PatchValidated

SpecValidate == InitValidate /\ [][NextValidate]_vars

(***************************************************************************)
(* SpecNested: ArticleCreateSerializer.create and .update, called one      *)
(* after the other.  last holds the call and its validated_data.           *)
(***************************************************************************)
Range(seq) == {seq[i] : i \in 1..Len(seq)}

TagLists == UNION {[1..n -> TagNames] : n \in 0..MaxTagList}

\* validated_data of ArticleCreateSerializer: title, status and the nested
\* tags, each tag_data being its name (id and slug are not writable).
NestedData ==
    {Strip(raw) : raw \in [title : Opt({Title(MinTitleLen)}),
                           status : Opt(Statuses), tags : Opt(TagLists)]}

\* Mutant: Tag.objects.create in place of get_or_create.
always_create(rows, name) ==
    [rows |-> Append(rows, name), id |-> Len(rows) + 1]

\* Tag.objects.get_or_create(**tag_data) on the Tag table.
get_or_create(rows, name) ==
    IF \E i \in 1..Len(rows) : rows[i] = name
    THEN [rows |-> rows,
          id |-> CHOOSE i \in 1..Len(rows) :
                    rows[i] = name /\ \A j \in 1..(i - 1) : rows[j] # name]
    ELSE [rows |-> Append(rows, name), id |-> Len(rows) + 1]

\* for tag_data in tags_data: get_or_create the tag, add it to the article.
RECURSIVE add_tags(_, _, _)
add_tags(rows, tags, tags_data) ==
    IF tags_data = <<>>
    THEN [rows |-> rows, tags |-> tags]
    ELSE LET got == get_or_create(rows, Head(tags_data))
         IN  add_tags(got.rows, tags \cup {got.id}, Tail(tags_data))

\* validated_data after pop("tags", ...).
WithoutTags(validated_data) ==
    [k \in (DOMAIN validated_data) \ {"tags"} |-> validated_data[k]]

nested_create(validated_data) ==
    LET tags_data == IF "tags" \in DOMAIN validated_data
                     THEN validated_data.tags ELSE <<>>
        article   == NewRow(WithoutTags(validated_data))
        added     == add_tags(tagRows, {}, tags_data)
    IN  [table |-> Append(articles, [article EXCEPT !.tags = added.tags]),
         rows  |-> added.rows]

\* Mutant: instance.tags.clear() is left out.
nested_update_no_clear(pk, validated_data) ==
    LET instance == SetAttrs(articles[pk], WithoutTags(validated_data))
        added    == add_tags(tagRows, instance.tags, validated_data.tags)
    IN  IF "tags" \notin DOMAIN validated_data
        THEN [table |-> [articles EXCEPT ![pk] = instance], rows |-> tagRows]
        ELSE [table |-> [articles EXCEPT ![pk] = [instance EXCEPT !.tags = added.tags]],
              rows  |-> added.rows]

nested_update(pk, validated_data) ==
    LET instance == SetAttrs(articles[pk], WithoutTags(validated_data))
        added    == add_tags(tagRows, {}, validated_data.tags)
    IN  IF "tags" \notin DOMAIN validated_data
        THEN [table |-> [articles EXCEPT ![pk] = instance], rows |-> tagRows]
        ELSE [table |-> [articles EXCEPT ![pk] = [instance EXCEPT !.tags = added.tags]],
              rows  |-> added.rows]

Called(op, pk, validated_data) ==
    Response(op, None, pk, 0, {}, [validated_data |-> validated_data])

NestedCreate(validated_data) ==
    /\ Serving
    /\ Len(articles) < MaxArticles
    /\ "title" \in DOMAIN validated_data
    /\ articles' = nested_create(validated_data).table
    /\ tagRows' = nested_create(validated_data).rows
    /\ last' = Called("nested_create", Len(articles) + 1, validated_data)
    /\ UNCHANGED <<reqs, vin, vout>>

NestedUpdate(pk, validated_data) ==
    /\ Serving
    /\ pk \in LiveIds
    /\ articles' = nested_update(pk, validated_data).table
    /\ tagRows' = nested_update(pk, validated_data).rows
    /\ last' = Called("nested_update", pk, validated_data)
    /\ UNCHANGED <<reqs, vin, vout>>

NextNested ==
    \/ Serving /\ \E validated_data \in NestedData : NestedCreate(validated_data)
    \/ Serving /\ \E pk \in Ids, validated_data \in NestedData :
                     NestedUpdate(pk, validated_data)
    \/ Deliver

SpecNested == Init /\ [][NextNested]_vars

(***************************************************************************)
(* SpecRace: publish requests handled at the same time.  A worker runs     *)
(* get_object (the database read), later the rest of publish (the test on  *)
(* the instance it holds and the database write); other workers and other  *)
(* requests run in between.                                                *)
(***************************************************************************)
Workers == 1..MaxInflight

\* The request bodies of the writers that run beside publish.
RaceData ==
    {Strip(raw) : raw \in [title : {<<Title(MinTitleLen)>>}, status : Opt(Statuses),
                           tag_ids : {<<{}>>}]}

\* self.get_object(): 404, or the instance read from the table.  The
\* requests that hold an instance of the same row at that moment overlap
\* with this one.
PublishGetObject(w, user, pk) ==
    LET peers == {v \in Workers \ {w} : reqs[v].pc = "got" /\ reqs[v].pk = pk}
    IN  /\ reqs[w].pc = "idle"
        /\ reqs' =
             IF pk \notin get_queryset(user)
             THEN [reqs EXCEPT ![w] = [pc |-> "done", pk |-> pk, overlap |-> {},
                                       code |-> HTTP_404_NOT_FOUND]]
             ELSE [v \in Workers |->
                     IF v = w
                     THEN [pc |-> "got", user |-> user, pk |-> pk,
                           article |-> articles[pk], overlap |-> peers]
                     ELSE IF v \in peers
                     THEN [reqs[v] EXCEPT !.overlap = @ \cup {w}]
                     ELSE reqs[v]]
        /\ UNCHANGED <<articles, tagRows, last, vin, vout>>

\* The rest of publish.  save(update_fields=...) on a row deleted since the
\* read updates no row and raises DatabaseError.
PublishSave(w) ==
    LET r    == reqs[w]
        res  == publish_instance(r.user, r.pk, r.article)
        lost == r.article.status # "published" /\ r.pk \notin LiveIds
    IN  /\ r.pc = "got"
        /\ articles' = IF lost THEN articles ELSE res.table
        /\ reqs' = [reqs EXCEPT ![w] =
                      [pc |-> "done", pk |-> r.pk, overlap |-> r.overlap,
                       code |-> IF lost THEN HTTP_500_INTERNAL_SERVER_ERROR
                                ELSE res.response.code]]
        /\ UNCHANGED <<tagRows, last, vin, vout>>

RaceDeliver(w) ==
    /\ reqs[w].pc = "done"
    /\ reqs' = [reqs EXCEPT ![w] = [pc |-> "idle"]]
    /\ UNCHANGED <<articles, tagRows, last, vin, vout>>

\* Another request's write, from its request to its response.
RaceWrite(result) ==
    /\ Len(result.table) <= MaxArticles
    /\ result.response.code \in {HTTP_200_OK, HTTP_201_CREATED, HTTP_204_NO_CONTENT}
    /\ articles' = result.table
    /\ UNCHANGED <<tagRows, last, reqs, vin, vout>>

NextRace ==
    \/ \E w \in Workers, user \in Users, pk \in Ids : PublishGetObject(w, user, pk)
    \/ \E w \in Workers : PublishSave(w)
    \/ \E w \in Workers : RaceDeliver(w)
    \/ \E user \in Users, data \in RaceData : RaceWrite(create(user, data))
    \/ \E user \in Users, pk \in Ids, data \in RaceData :
          RaceWrite(update(user, pk, data, TRUE))
    \/ \E user \in Users, pk \in Ids : RaceWrite(destroy(user, pk))

SpecRace == Init /\ [][NextRace]_vars

(***************************************************************************)
(* Properties of the view set (Spec).                                      *)
(***************************************************************************)
DetailOps == {"retrieve", "update", "partial_update", "destroy", "publish"}

\* A step of Spec in which the handler op runs; last' is its response.
Handled(op) == Serving /\ last'.op = op

\* C1: publish on an article whose status is already "published" returns
\* HTTP 400 with a detail message and writes nothing.
C1_PublishPublishedIs400 ==
    [][\A pk \in Ids :
          (/\ Handled("publish") /\ last'.pk = pk
           /\ pk \in LiveIds /\ articles[pk].status = "published")
          => /\ last'.code = HTTP_400_BAD_REQUEST
             /\ "detail" \in DOMAIN last'.body
             /\ articles' = articles]_vars

C1_Witness ==
    /\ last.op = "publish" /\ last.code = HTTP_400_BAD_REQUEST
    /\ articles[last.pk].status = "published"

\* C2: my_articles returns exactly the articles whose author is the
\* requesting user.
C2_MyArticlesAreAllMine ==
    (last.op = "my_articles" /\ last.code = HTTP_200_OK)
    => last.body.ids = {i \in LiveIds : articles[i].author = last.user}

\* C3: publish on a reachable article that is not published sets its status
\* to "published", changes nothing else in the table, and returns the
\* serialized article with HTTP 200.
C3_PublishWritesStatusOnly ==
    [][\A pk \in Ids :
          (/\ Handled("publish") /\ last'.pk = pk /\ pk \in LiveIds
           /\ is_staff(last'.user) \/ articles[pk].status = "published"
           /\ articles[pk].status # "published")
          => /\ articles' = [articles EXCEPT ![pk].status = "published"]
             /\ last'.code = HTTP_200_OK
             /\ last'.body = Serialized(pk, articles'[pk])]_vars

C3_Witness ==
    /\ last.op = "publish" /\ last.code = HTTP_200_OK
    /\ Len(articles) = MaxArticles
    /\ \E e \in last.reached : e[2] = "archived"

\* C4: a non-staff requester only ever reaches published articles, any other
\* article is not found for them, and their publish never changes a status;
\* a staff requester reaches every article whatever its status.
C4_NonStaffSeesPublishedOnly ==
    [][(Serving /\ last' # Idle) =>
          /\ ~is_staff(last'.user) =>
                /\ \A e \in last'.reached : e[2] = "published"
                /\ (/\ last'.op \in DetailOps
                    /\ ~(last'.pk \in LiveIds /\ articles[last'.pk].status = "published"))
                   => last'.code = HTTP_404_NOT_FOUND /\ articles' = articles
                /\ last'.op = "publish" =>
                      \A i \in 1..Len(articles) : articles'[i].status = articles[i].status
          /\ (is_staff(last'.user) /\ last'.op \in DetailOps /\ last'.pk \in LiveIds)
             => /\ last'.code # HTTP_404_NOT_FOUND
                /\ last'.reached = {<<last'.pk, articles[last'.pk].status>>}]_vars

C4_Witness ==
    /\ last.op = "publish" /\ ~is_staff(last.user)
    /\ last.code = HTTP_404_NOT_FOUND
    /\ last.pk \in LiveIds /\ articles[last.pk].status = "draft"

\* C5: an article created through the view set has the requesting user as
\* its author whatever the request body says, and no update or
\* partial_update changes the author of an article.
C5_AuthorIsRequester ==
    [][(Serving /\ last' # Idle) =>
          /\ Len(articles') > Len(articles)
             => articles'[Len(articles')].author = last'.user
          /\ \A i \in 1..Len(articles) :
                articles'[i].live => articles'[i].author = articles[i].author]_vars

C5_Witness ==
    /\ last.op \in {"update", "partial_update"} /\ last.code = HTTP_200_OK
    /\ last.user # articles[last.pk].author
    /\ \E i \in LiveIds : articles[i].author = "bob"

\* C8: every article whose status is "published" has a non-empty summary.
C8_PublishedHasSummary ==
    \A i \in LiveIds : articles[i].status = "published" => articles[i].summary # ""

(***************************************************************************)
(* Properties of ArticleSerializer's validation (SpecValidate).            *)
(***************************************************************************)
\* C6: validation rejects the input, and nothing is persisted, exactly when
\* the supplied title has fewer than 5 characters or the supplied status is
\* "published" with the summary missing or empty; any other input is
\* returned unchanged and saved.
C6_ValidationRules ==
    ("ok" \in DOMAIN vout) =>
        LET attrs == vin.data
            short == "title" \in DOMAIN attrs /\ Len(attrs.title) < MinTitleLen
            bare  == /\ "status" \in DOMAIN attrs /\ attrs.status = "published"
                     /\ "summary" \notin DOMAIN attrs \/ attrs.summary = ""
        IN  IF short \/ bare
            THEN /\ ~vout.ok
                 /\ last.code = HTTP_400_BAD_REQUEST
                 /\ articles = <<vin.instance>>
            ELSE /\ vout = [ok |-> TRUE, value |-> attrs]
                 /\ last.code = HTTP_200_OK
                 /\ \A f \in DOMAIN attrs : articles[1][f] = attrs[f]

C6_Witness ==
    /\ "ok" \in DOMAIN vout /\ ~vout.ok /\ vout.errors = "summary"
    /\ vin.instance.summary # ""
    /\ "title" \in DOMAIN vin.data /\ Len(vin.data.title) = MinTitleLen

(***************************************************************************)
(* Properties of ArticleCreateSerializer (SpecNested).                     *)
(***************************************************************************)
TagNamesOf(table, rows, pk) == {rows[t] : t \in table[pk].tags}

\* C7: update with a tags list leaves the article with exactly the tags the
\* list names, one row per name; update without tags leaves the article's
\* tags as they were; the other supplied fields are written either way.
C7_UpdateReplacesTags ==
    [][(Serving /\ last'.op = "nested_update") =>
          LET pk == last'.pk
              validated_data == last'.body.validated_data
          IN  /\ "tags" \in DOMAIN validated_data =>
                    /\ TagNamesOf(articles', tagRows', pk) = Range(validated_data.tags)
                    /\ Cardinality(articles'[pk].tags)
                          = Cardinality(Range(validated_data.tags))
              /\ "tags" \notin DOMAIN validated_data =>
                    /\ articles'[pk].tags = articles[pk].tags
                    /\ tagRows' = tagRows
              /\ \A f \in (DOMAIN validated_data) \ {"tags"} :
                    articles'[pk][f] = validated_data[f]]_vars

C7_Witness ==
    /\ last.op = "nested_update"
    /\ "tags" \in DOMAIN last.body.validated_data
    /\ last.body.validated_data.tags = <<"django">>
    /\ Len(tagRows) = 2
    /\ articles[last.pk].tags = {2}

\* C9: create and update never leave two Tag rows with the same name, and
\* after create the new article has exactly the tags the list names.
C9_TagsAreReused ==
    [][(Serving /\ last' # Idle) =>
          /\ \A i, j \in 1..Len(tagRows') : tagRows'[i] = tagRows'[j] => i = j
          /\ last'.op = "nested_create" =>
                LET validated_data == last'.body.validated_data
                    named == IF "tags" \in DOMAIN validated_data
                             THEN Range(validated_data.tags) ELSE {}
                IN  /\ last'.pk = Len(articles')
                    /\ TagNamesOf(articles', tagRows', last'.pk) = named]_vars

C9_Witness ==
    /\ last.op = "nested_create" /\ last.pk = 2
    /\ articles[1].tags = articles[2].tags
    /\ Cardinality(articles[2].tags) = 2

(***************************************************************************)
(* Properties of concurrent publish requests (SpecRace).                   *)
(***************************************************************************)
\* C10: of two publish requests for the same article handled at the same
\* time, at most one returns success.
C10_OnePublishSucceeds ==
    \A w, v \in Workers :
        (/\ w # v
         /\ reqs[w].pc = "done" /\ reqs[v].pc = "done"
         /\ reqs[w].pk = reqs[v].pk
         /\ v \in reqs[w].overlap /\ w \in reqs[v].overlap)
        => ~(reqs[w].code = HTTP_200_OK /\ reqs[v].code = HTTP_200_OK)

====
